---- MODULE Spec2Model ----
(***************************************************************************)
(* Model of src/data/cache.py: class Cache, an in-memory cache of API      *)
(* responses (five dicts ticker -> list of records) that is merged on      *)
(* every set_* call and written to one SQLite row after every merge.       *)
(***************************************************************************)
EXTENDS Integers, Sequences, FiniteSets, TLC

\* ------------------------------------------------------------------ bounds
\* Longest batch (new_data) passed to a set_* call or to _merge_data.
MaxBatch == 2
\* Number of public calls (get_*, set_*, save_to_db, load_from_db, Cache())
\* made in one run.
MaxCalls == 2

\* ------------------------------------------------------------ input values
Tickers == {"AAPL", "MSFT"}

Categories ==
    {"prices", "financial_metrics", "line_items", "insider_trades", "company_news"}

\* The key_field argument each set_* method passes to _merge_data.
key_field(category) ==
    CASE category = "prices" -> "time"
      [] category = "financial_metrics" -> "report_period"
      [] category = "line_items" -> "report_period"
      [] category = "insider_trades" -> "filing_date"
      [] category = "company_news" -> "date"

KeyFields == {key_field(c) : c \in Categories}

\* Python values held in a record (dict[str, any]): a str or an int, tagged
\* with its type.
PyStr(s) == <<"str", s>>
PyInt(n) == <<"int", n>>

IdValues == {"2024-01-01", "2024-01-02"}
Closes == {100, 999}

\* A record that carries the identity field kf, and one that lacks it.
Item(kf, id, close) == (kf :> PyStr(id)) @@ ("close" :> PyInt(close))
NoKeyItem == ("close" :> PyInt(5))

KeyedItems(kf) == {Item(kf, id, close) : id \in IdValues, close \in Closes}
Items(kf) == KeyedItems(kf) \cup {NoKeyItem}

SeqsUpTo(S, n) == UNION {[1..k -> S] : k \in 0..n}

\* The batches a caller may pass as new_data.
Batches(kf) == SeqsUpTo(Items(kf), MaxBatch)

\* ------------------------------------------------------------------- state
VARIABLES
    prices_cache,             \* self._prices_cache
    financial_metrics_cache,  \* self._financial_metrics_cache
    line_items_cache,         \* self._line_items_cache
    insider_trades_cache,     \* self._insider_trades_cache
    company_news_cache,       \* self._company_news_cache
    db,                       \* rows of table cache, by primary key
    calls,                    \* public calls made so far
    last,                     \* the last public call: arguments and outcome
    frame                     \* a direct call of _merge_data: arguments, result

caches == <<prices_cache, financial_metrics_cache, line_items_cache,
            insider_trades_cache, company_news_cache>>
vars == <<prices_cache, financial_metrics_cache, line_items_cache,
          insider_trades_cache, company_news_cache, db, calls, last, frame>>

\* The five dicts of the instance, by category.
mem ==
    [c \in Categories |->
        CASE c = "prices" -> prices_cache
          [] c = "financial_metrics" -> financial_metrics_cache
          [] c = "line_items" -> line_items_cache
          [] c = "insider_trades" -> insider_trades_cache
          [] c = "company_news" -> company_news_cache]

\* -------------------------------------------------------------------- dict
EmptyDict == [t \in {} |-> <<>>]

\* Optional[list]: None, or a list.
None == [is_none |-> TRUE, value |-> <<>>]
Some(list) == [is_none |-> FALSE, value |-> list]

\* d.get(ticker)
dict_get(d, ticker) ==
    IF ticker \in DOMAIN d THEN Some(d[ticker]) ELSE None

\* d[ticker] = value
dict_set(d, ticker, value) ==
    [t \in DOMAIN d \cup {ticker} |-> IF t = ticker THEN value ELSE d[t]]

\* --------------------------------------------------------------- _merge_data
Range(s) == {s[i] : i \in 1..Len(s)}

RECURSIVE Filter_reversed(_, _, _)
\* Filter with the admitted records in reverse order (merged.insert in place
\* of merged.extend).
Filter_reversed(new_data, kf, existing_keys) ==
    IF Len(new_data) = 0 THEN <<>>
    ELSE LET rest == Filter_reversed(Tail(new_data), kf, existing_keys)
         IN IF Head(new_data)[kf] \notin existing_keys
            THEN rest \o <<Head(new_data)>>
            ELSE rest

RECURSIVE Filter(_, _, _)
\* [item for item in new_data if item[key_field] not in existing_keys]
Filter(new_data, kf, existing_keys) ==
    IF Len(new_data) = 0 THEN <<>>
    ELSE LET rest == Filter(Tail(new_data), kf, existing_keys)
         IN IF Head(new_data)[kf] \notin existing_keys
            THEN <<Head(new_data)>> \o rest
            ELSE rest

\* item[key_field] raises KeyError for some item of the list
HasKeyError(list, kf) == \E i \in 1..Len(list) : kf \notin DOMAIN list[i]

Returned(list) == [raised |-> FALSE, value |-> list]
KeyError == [raised |-> TRUE, value |-> <<>>]

\* _merge_data where the incoming record replaces the stored record of the
\* same identity value.
_merge_data_incoming_wins(existing, new_data, kf) ==
    IF existing.is_none \/ Len(existing.value) = 0
    THEN Returned(new_data)
    ELSE IF HasKeyError(existing.value, kf) \/ HasKeyError(new_data, kf)
         THEN KeyError
         ELSE LET new_keys == {item[kf] : item \in Range(new_data)}
              IN Returned(SelectSeq(existing.value,
                                    LAMBDA item : item[kf] \notin new_keys)
                          \o new_data)

\* _merge_data that extends existing with all of new_data, without the filter.
_merge_data_extend_all(existing, new_data, kf) ==
    IF existing.is_none \/ Len(existing.value) = 0
    THEN Returned(new_data)
    ELSE IF HasKeyError(existing.value, kf) \/ HasKeyError(new_data, kf)
         THEN KeyError
         ELSE Returned(existing.value \o new_data)

\* _merge_data without the early return for an empty existing: None is taken
\* as the empty list and new_data goes through the filter.
_merge_data_no_shortcut(existing, new_data, kf) ==
    IF HasKeyError(existing.value, kf) \/ HasKeyError(new_data, kf)
    THEN KeyError
    ELSE LET existing_keys == {item[kf] : item \in Range(existing.value)}
         IN Returned(existing.value \o Filter(new_data, kf, existing_keys))

\* _merge_data that drops an incoming record only when the same record, with
\* the same payload, is stored (item not in existing).
_merge_data_whole_record(existing, new_data, kf) ==
    IF existing.is_none \/ Len(existing.value) = 0
    THEN Returned(new_data)
    ELSE LET stored(item) == item \in Range(existing.value)
             fresh(item) == ~stored(item)
         IN Returned(existing.value \o SelectSeq(new_data, fresh))

\* Cache._merge_data(existing, new_data, key_field)
_merge_data(existing, new_data, kf) ==
    IF existing.is_none \/ Len(existing.value) = 0
    THEN Returned(new_data)
    ELSE IF HasKeyError(existing.value, kf) \/ HasKeyError(new_data, kf)
         THEN KeyError
         ELSE LET existing_keys == {item[kf] : item \in Range(existing.value)}
              IN Returned(existing.value \o Filter(new_data, kf, existing_keys))

\* ---------------------------------------------------------------------- json
\* JSON text is kept as its parse tree: <<"string", s>>, <<"number", digits>>,
\* <<"array", elements>>, <<"object", members>> with members <<name, value>>.

RECURSIVE Digits(_)
\* the decimal digits json.dumps writes for a non-negative int
Digits(n) == IF n < 10 THEN <<n>> ELSE Append(Digits(n \div 10), n % 10)

RECURSIVE Number(_)
\* the int json.loads reads from decimal digits
Number(ds) ==
    IF Len(ds) = 0 THEN 0
    ELSE 10 * Number(SubSeq(ds, 1, Len(ds) - 1)) + ds[Len(ds)]

RECURSIVE Keys(_)
\* the keys of a dict in the order json.dumps walks them
Keys(S) ==
    IF S = {} THEN <<>>
    ELSE LET k == CHOOSE k \in S : TRUE IN <<k>> \o Keys(S \ {k})

dumps_value(v) ==
    IF v[1] = "str" THEN <<"string", v[2]>> ELSE <<"number", Digits(v[2])>>

loads_value(j) ==
    IF j[1] = "string" THEN PyStr(j[2]) ELSE PyInt(Number(j[2]))

\* a record (dict field -> value) as a JSON object
dumps_item(item) ==
    LET ks == Keys(DOMAIN item)
    IN <<"object", [i \in 1..Len(ks) |-> <<ks[i], dumps_value(item[ks[i]])>>]>>

\* the value of member name; json.loads keeps the last member of a repeated name
Member(ms, name) ==
    ms[CHOOSE i \in 1..Len(ms) :
          /\ ms[i][1] = name
          /\ \A j \in 1..Len(ms) : ms[j][1] = name => j <= i][2]

loads_item(j) ==
    [name \in {j[2][i][1] : i \in 1..Len(j[2])} |-> loads_value(Member(j[2], name))]

\* loads_list that builds the list back to front.
loads_list_reversed(j) ==
    [i \in 1..Len(j[2]) |-> loads_item(j[2][Len(j[2]) + 1 - i])]

dumps_list(list) == <<"array", [i \in 1..Len(list) |-> dumps_item(list[i])]>>

loads_list(j) == [i \in 1..Len(j[2]) |-> loads_item(j[2][i])]

\* json.dumps(self._prices_cache): a dict ticker -> list of records
json_dumps(d) ==
    LET ks == Keys(DOMAIN d)
    IN <<"object", [i \in 1..Len(ks) |-> <<ks[i], dumps_list(d[ks[i]])>>]>>

\* json.loads(row[1])
json_loads(j) ==
    [t \in {j[2][i][1] : i \in 1..Len(j[2])} |-> loads_list(Member(j[2], t))]

\* ------------------------------------------------------------------- sqlite
\* Table cache after _create_tables on a new file: no rows.
NoRows == [k \in {} |-> <<>>]

\* The column of table cache that holds a category's dict.
Column(category) ==
    CASE category = "prices" -> "prices_cache"
      [] category = "financial_metrics" -> "financial_metrics_cache"
      [] category = "line_items" -> "line_items_cache"
      [] category = "insider_trades" -> "insider_trades_cache"
      [] category = "company_news" -> "company_news_cache"

Columns == {Column(c) : c \in Categories}

\* INSERT OR IGNORE INTO cache: a row that has this primary key already stays.
InsertOrReplace_ignore(rows, key, row) ==
    [k \in DOMAIN rows \cup {key} |-> IF k \in DOMAIN rows THEN rows[k] ELSE row]

\* INSERT OR REPLACE INTO cache: the row with this primary key is replaced.
InsertOrReplace(rows, key, row) ==
    [k \in DOMAIN rows \cup {key} |-> IF k = key THEN row ELSE rows[k]]

\* The row save_to_db writes for the five dicts m (by category).
Row(m) ==
    [col \in Columns |->
        json_dumps(m[CHOOSE c \in Categories : Column(c) = col])]

\* The table after save_to_db has committed.
Saved(rows, m) == InsertOrReplace(rows, "cache", Row(m))

\* load_from_db that updates the dicts with the row's (dict.update): tickers
\* that are only in memory stay.
Loaded_update(rows, m) ==
    IF "cache" \in DOMAIN rows
    THEN [c \in Categories |->
             LET d == json_loads(rows["cache"][Column(c)])
             IN [t \in DOMAIN m[c] \cup DOMAIN d |->
                    IF t \in DOMAIN d THEN d[t] ELSE m[c][t]]]
    ELSE m

\* The five dicts after load_from_db: replaced when the row exists.
Loaded(rows, m) ==
    IF "cache" \in DOMAIN rows
    THEN [c \in Categories |-> json_loads(rows["cache"][Column(c)])]
    ELSE m

\* The five dicts __init__ creates before it loads.
EmptyCaches == [c \in Categories |-> EmptyDict]

\* ------------------------------------------------------------------ calls
\* Every record of the list has the field kf.
AllKeyed(list, kf) == \A i \in 1..Len(list) : kf \in DOMAIN list[i]

Ids(list, kf) == {list[i][kf] : i \in 1..Len(list)}

\* No two records of the list (all with the field kf) have the same value of kf.
UniqueIds(list, kf) ==
    \A i, j \in 1..Len(list) : i # j => list[i][kf] # list[j][kf]

\* What a public call leaves in last: its arguments, how it ended ("ok", or
\* the exception that reached the caller), what it returned, the instance's
\* dicts and the table as they were when it was called, the call before, the
\* (category, ticker) entries that set_* calls have assigned so far, and
\* whether every batch passed to a set_* call so far had the identity field in
\* every record and no identity value twice.
Call(op, category, ticker, data, status, value) ==
    [op |-> op, category |-> category, ticker |-> ticker, data |-> data,
     status |-> status, value |-> value, mem0 |-> mem, db0 |-> db,
     prev |-> [op |-> last.op, category |-> last.category,
               ticker |-> last.ticker, data |-> last.data,
               status |-> last.status, value |-> last.value],
     assigned |-> last.assigned \cup
                  IF op = "set" /\ status # "KeyError"
                  THEN {<<category, ticker>>} ELSE {},
     distinct |-> /\ last.distinct
                  /\ op = "set" => /\ AllKeyed(data, key_field(category))
                                   /\ UniqueIds(data, key_field(category))]

NoCall == [op |-> "", category |-> "", ticker |-> "", data |-> <<>>,
           status |-> "ok", value |-> None,
           mem0 |-> EmptyCaches, db0 |-> NoRows,
           prev |-> [op |-> "", category |-> "", ticker |-> "", data |-> <<>>,
                     status |-> "ok", value |-> None],
           assigned |-> {}, distinct |-> TRUE]

NoFrame == [phase |-> "idle"]

\* How a set_* call ends: _merge_data raised, or the write of save_to_db
\* raised, or neither.
SetStatus(merged, disk_ok) ==
    IF merged.raised THEN "KeyError"
    ELSE IF disk_ok THEN "ok" ELSE "OperationalError"

\* save_to_db called before the assignment of the merge result: the row holds
\* the dicts as they were when the set_* method was entered.
SaveAfterSet_stale(merged, disk_ok) ==
    db' = IF ~merged.raised /\ disk_ok THEN Saved(db, mem) ELSE db

\* save_to_db whose failed write still replaces the row.
SaveAfterSet_uncommitted(merged, disk_ok) ==
    db' = IF ~merged.raised THEN Saved(db, mem') ELSE db

\* save_to_db in a finally block of the set_* method: it runs also when
\* _merge_data raised.
SaveAfterSet_finally(merged, disk_ok) ==
    db' = IF disk_ok THEN Saved(db, mem') ELSE db

\* self.save_to_db() as the last statement of a set_* method: reached only
\* when _merge_data returned; the row is replaced only when the write commits.
SaveAfterSet(merged, disk_ok) ==
    db' = IF ~merged.raised /\ disk_ok THEN Saved(db, mem') ELSE db

\* self._x_cache[ticker] = self._merge_data(...): no assignment when it raised
Assigned(d, ticker, merged) ==
    IF merged.raised THEN d ELSE dict_set(d, ticker, merged.value)

StartCall ==
    /\ calls < MaxCalls
    /\ calls' = calls + 1
    /\ UNCHANGED frame

\* get_prices that takes the list out of the dict (dict.pop for dict.get).
get_prices_pop(ticker) ==
    /\ StartCall
    /\ last' = Call("get", "prices", ticker, <<>>, "ok", dict_get(prices_cache, ticker))
    /\ prices_cache' = [t \in DOMAIN prices_cache \ {ticker} |-> prices_cache[t]]
    /\ UNCHANGED <<financial_metrics_cache, line_items_cache,
                   insider_trades_cache, company_news_cache, db>>

get_prices(ticker) ==
    /\ StartCall
    /\ last' = Call("get", "prices", ticker, <<>>, "ok", dict_get(prices_cache, ticker))
    /\ UNCHANGED <<caches, db>>

set_prices(ticker, data, disk_ok) ==
    LET merged == _merge_data(dict_get(prices_cache, ticker), data, "time")
    IN /\ StartCall
       /\ prices_cache' = Assigned(prices_cache, ticker, merged)
       /\ UNCHANGED <<financial_metrics_cache, line_items_cache,
                      insider_trades_cache, company_news_cache>>
       /\ SaveAfterSet(merged, disk_ok)
       /\ last' = Call("set", "prices", ticker, data, SetStatus(merged, disk_ok), None)

get_financial_metrics(ticker) ==
    /\ StartCall
    /\ last' = Call("get", "financial_metrics", ticker, <<>>, "ok",
                    dict_get(financial_metrics_cache, ticker))
    /\ UNCHANGED <<caches, db>>

set_financial_metrics(ticker, data, disk_ok) ==
    LET merged == _merge_data(dict_get(financial_metrics_cache, ticker), data,
                              "report_period")
    IN /\ StartCall
       /\ financial_metrics_cache' = Assigned(financial_metrics_cache, ticker, merged)
       /\ UNCHANGED <<prices_cache, line_items_cache,
                      insider_trades_cache, company_news_cache>>
       /\ SaveAfterSet(merged, disk_ok)
       /\ last' = Call("set", "financial_metrics", ticker, data,
                       SetStatus(merged, disk_ok), None)

get_line_items(ticker) ==
    /\ StartCall
    /\ last' = Call("get", "line_items", ticker, <<>>, "ok",
                    dict_get(line_items_cache, ticker))
    /\ UNCHANGED <<caches, db>>

\* set_line_items that reads and assigns the financial-metrics dict, which has
\* the same key_field
set_line_items_wrong_dict(ticker, data, disk_ok) ==
    LET merged == _merge_data(dict_get(financial_metrics_cache, ticker), data,
                              "report_period")
    IN /\ StartCall
       /\ financial_metrics_cache' = Assigned(financial_metrics_cache, ticker, merged)
       /\ UNCHANGED <<prices_cache, line_items_cache,
                      insider_trades_cache, company_news_cache>>
       /\ SaveAfterSet(merged, disk_ok)
       /\ last' = Call("set", "line_items", ticker, data,
                       SetStatus(merged, disk_ok), None)

set_line_items(ticker, data, disk_ok) ==
    LET merged == _merge_data(dict_get(line_items_cache, ticker), data,
                              "report_period")
    IN /\ StartCall
       /\ line_items_cache' = Assigned(line_items_cache, ticker, merged)
       /\ UNCHANGED <<prices_cache, financial_metrics_cache,
                      insider_trades_cache, company_news_cache>>
       /\ SaveAfterSet(merged, disk_ok)
       /\ last' = Call("set", "line_items", ticker, data,
                       SetStatus(merged, disk_ok), None)

get_insider_trades(ticker) ==
    /\ StartCall
    /\ last' = Call("get", "insider_trades", ticker, <<>>, "ok",
                    dict_get(insider_trades_cache, ticker))
    /\ UNCHANGED <<caches, db>>

set_insider_trades(ticker, data, disk_ok) ==
    LET merged == _merge_data(dict_get(insider_trades_cache, ticker), data,
                              "filing_date")
    IN /\ StartCall
       /\ insider_trades_cache' = Assigned(insider_trades_cache, ticker, merged)
       /\ UNCHANGED <<prices_cache, financial_metrics_cache,
                      line_items_cache, company_news_cache>>
       /\ SaveAfterSet(merged, disk_ok)
       /\ last' = Call("set", "insider_trades", ticker, data,
                       SetStatus(merged, disk_ok), None)

\* get_company_news that reads the dict of insider trades.
get_company_news_wrong_dict(ticker) ==
    /\ StartCall
    /\ last' = Call("get", "company_news", ticker, <<>>, "ok",
                    dict_get(insider_trades_cache, ticker))
    /\ UNCHANGED <<caches, db>>

get_company_news(ticker) ==
    /\ StartCall
    /\ last' = Call("get", "company_news", ticker, <<>>, "ok",
                    dict_get(company_news_cache, ticker))
    /\ UNCHANGED <<caches, db>>

set_company_news(ticker, data, disk_ok) ==
    LET merged == _merge_data(dict_get(company_news_cache, ticker), data, "date")
    IN /\ StartCall
       /\ company_news_cache' = Assigned(company_news_cache, ticker, merged)
       /\ UNCHANGED <<prices_cache, financial_metrics_cache,
                      line_items_cache, insider_trades_cache>>
       /\ SaveAfterSet(merged, disk_ok)
       /\ last' = Call("set", "company_news", ticker, data,
                       SetStatus(merged, disk_ok), None)

\* The five attributes of the instance become the dicts m.
Rebind(m) ==
    /\ prices_cache' = m["prices"]
    /\ financial_metrics_cache' = m["financial_metrics"]
    /\ line_items_cache' = m["line_items"]
    /\ insider_trades_cache' = m["insider_trades"]
    /\ company_news_cache' = m["company_news"]

\* Cache.save_to_db() called on its own
save_to_db(disk_ok) ==
    /\ StartCall
    /\ db' = IF disk_ok THEN Saved(db, mem) ELSE db
    /\ last' = Call("save", "", "", <<>>,
                    IF disk_ok THEN "ok" ELSE "OperationalError", None)
    /\ UNCHANGED caches

\* Cache.load_from_db() called on its own
load_from_db(disk_ok) ==
    /\ StartCall
    /\ Rebind(IF disk_ok THEN Loaded(db, mem) ELSE mem)
    /\ last' = Call("load", "", "", <<>>,
                    IF disk_ok THEN "ok" ELSE "OperationalError", None)
    /\ UNCHANGED db

\* The process ends and a new one constructs Cache() on the same db_path:
\* five empty dicts, _create_tables (the table exists already), load_from_db.
__init__ ==
    /\ StartCall
    /\ Rebind(Loaded(db, EmptyCaches))
    /\ last' = Call("init", "", "", <<>>, "ok", None)
    /\ UNCHANGED db

\* ------------------------------------------------------------ specification
\* Cache() on a new database file: five empty dicts, table cache without rows.
Init ==
    /\ prices_cache = EmptyDict
    /\ financial_metrics_cache = EmptyDict
    /\ line_items_cache = EmptyDict
    /\ insider_trades_cache = EmptyDict
    /\ company_news_cache = EmptyDict
    /\ db = NoRows
    /\ calls = 0
    /\ last = NoCall
    /\ frame = NoFrame

Next ==
    \/ \E t \in Tickers : get_prices(t)
    \/ \E t \in Tickers, data \in Batches("time"), ok \in BOOLEAN :
           set_prices(t, data, ok)
    \/ \E t \in Tickers : get_financial_metrics(t)
    \/ \E t \in Tickers, data \in Batches("report_period"), ok \in BOOLEAN :
           set_financial_metrics(t, data, ok)
    \/ \E t \in Tickers : get_line_items(t)
    \/ \E t \in Tickers, data \in Batches("report_period"), ok \in BOOLEAN :
           set_line_items(t, data, ok)
    \/ \E t \in Tickers : get_insider_trades(t)
    \/ \E t \in Tickers, data \in Batches("filing_date"), ok \in BOOLEAN :
           set_insider_trades(t, data, ok)
    \/ \E t \in Tickers : get_company_news(t)
    \/ \E t \in Tickers, data \in Batches("date"), ok \in BOOLEAN :
           set_company_news(t, data, ok)
    \/ \E ok \in BOOLEAN : save_to_db(ok)
    \/ \E ok \in BOOLEAN : load_from_db(ok)
    \/ __init__

Spec == Init /\ [][Next]_vars

\* --------------------------------------------- start over an existing row
\* Batches of at most one record.
SingleBatches(kf) == SeqsUpTo(Items(kf), 1)

\* The dicts of a Cache whose only set_* call stored one record.
OneEntry(category, ticker) ==
    [c \in Categories |->
        IF c = category
        THEN dict_set(EmptyDict, ticker,
                      <<Item(key_field(category), "2024-01-01", 100)>>)
        ELSE EmptyDict]

\* Cache() on a database file that is new (no row), or that another Cache (an
\* earlier process, or one running next to this one) has written with one
\* committed set_* call: this instance was constructed after that write (it
\* has loaded the row) or before it (its dicts are empty).
InitWarm ==
    /\ \E c \in Categories, t \in Tickers, written \in BOOLEAN, loaded \in BOOLEAN :
          /\ db = IF written THEN Saved(NoRows, OneEntry(c, t)) ELSE NoRows
          /\ LET m == IF loaded THEN Loaded(db, EmptyCaches) ELSE EmptyCaches
             IN /\ prices_cache = m["prices"]
                /\ financial_metrics_cache = m["financial_metrics"]
                /\ line_items_cache = m["line_items"]
                /\ insider_trades_cache = m["insider_trades"]
                /\ company_news_cache = m["company_news"]
          /\ last = [NoCall EXCEPT !.assigned = IF written THEN {<<c, t>>} ELSE {}]
    /\ calls = 0
    /\ frame = NoFrame

NextWarm ==
    \/ \E t \in Tickers : get_prices(t)
    \/ \E t \in Tickers, data \in SingleBatches("time"), ok \in BOOLEAN :
           set_prices(t, data, ok)
    \/ \E t \in Tickers : get_financial_metrics(t)
    \/ \E t \in Tickers, data \in SingleBatches("report_period"), ok \in BOOLEAN :
           set_financial_metrics(t, data, ok)
    \/ \E t \in Tickers : get_line_items(t)
    \/ \E t \in Tickers, data \in SingleBatches("report_period"), ok \in BOOLEAN :
           set_line_items(t, data, ok)
    \/ \E t \in Tickers : get_insider_trades(t)
    \/ \E t \in Tickers, data \in SingleBatches("filing_date"), ok \in BOOLEAN :
           set_insider_trades(t, data, ok)
    \/ \E t \in Tickers : get_company_news(t)
    \/ \E t \in Tickers, data \in SingleBatches("date"), ok \in BOOLEAN :
           set_company_news(t, data, ok)
    \/ \E ok \in BOOLEAN : save_to_db(ok)
    \/ \E ok \in BOOLEAN : load_from_db(ok)
    \/ __init__

WarmSpec == InitWarm /\ [][NextWarm]_vars

\* ------------------------------------------------- _merge_data on its own
\* _merge_data called directly, on every existing list and batch of the
\* bounds, and called again on its own result with the same batch.
MergeArgs(kf, existing, new_data) ==
    [phase |-> "args", key_field |-> kf, existing |-> existing,
     new_data |-> new_data, merged |-> Returned(<<>>), again |-> Returned(<<>>)]

InitMerge ==
    /\ prices_cache = EmptyDict
    /\ financial_metrics_cache = EmptyDict
    /\ line_items_cache = EmptyDict
    /\ insider_trades_cache = EmptyDict
    /\ company_news_cache = EmptyDict
    /\ db = NoRows
    /\ calls = 0
    /\ last = NoCall
    /\ \E kf \in KeyFields :
          \E l \in Batches(kf), new_data \in Batches(kf), is_none \in BOOLEAN :
              /\ is_none => Len(l) = 0
              /\ frame = MergeArgs(kf, IF is_none THEN None ELSE Some(l), new_data)

MergeCall ==
    /\ frame.phase = "args"
    /\ frame' = [frame EXCEPT
                   !.phase = "merged",
                   !.merged = _merge_data(frame.existing, frame.new_data,
                                          frame.key_field)]
    /\ UNCHANGED <<caches, db, calls, last>>

MergeAgain ==
    /\ frame.phase = "merged"
    /\ ~frame.merged.raised
    /\ frame' = [frame EXCEPT
                   !.phase = "again",
                   !.again = _merge_data(Some(frame.merged.value), frame.new_data,
                                         frame.key_field)]
    /\ UNCHANGED <<caches, db, calls, last>>

NextMerge == MergeCall \/ MergeAgain

MergeSpec == InitMerge /\ [][NextMerge]_vars

\* --------------------------------------------- two threads in set_prices
\* Two threads of one process call set_prices on the module's one Cache with
\* the same ticker. The class takes no lock, so the interpreter can switch
\* threads between the steps of a call: the read of the stored list
\* (self._prices_cache.get), the assignment of the merged list, the encoding
\* of the five dicts for the INSERT, and the commit. frame holds, by thread,
\* the call's arguments, its position and its locals.
Threads == {1, 2}

ThreadCall(ticker, data) ==
    [pc |-> "called", ticker |-> ticker, data |-> data, existing |-> None,
     row |-> Row(EmptyCaches), status |-> "running"]

InitThreads ==
    /\ prices_cache = EmptyDict
    /\ financial_metrics_cache = EmptyDict
    /\ line_items_cache = EmptyDict
    /\ insider_trades_cache = EmptyDict
    /\ company_news_cache = EmptyDict
    /\ db = NoRows
    /\ calls = 0
    /\ last = NoCall
    /\ \E ticker \in Tickers :
          \E d1 \in Batches("time"), d2 \in Batches("time") :
              frame = (1 :> ThreadCall(ticker, d1)) @@ (2 :> ThreadCall(ticker, d2))

\* self._prices_cache.get(ticker), the argument of _merge_data
ThreadGet(th) ==
    /\ frame[th].pc = "called"
    /\ frame' = [frame EXCEPT
                   ![th].pc = "got",
                   ![th].existing = dict_get(prices_cache, frame[th].ticker)]
    /\ UNCHANGED <<caches, db, calls, last>>

\* self._prices_cache[ticker] = <what _merge_data returned>; a KeyError in
\* _merge_data ends the call
ThreadAssign(th) ==
    /\ frame[th].pc = "got"
    /\ LET merged == _merge_data(frame[th].existing, frame[th].data, "time")
       IN /\ prices_cache' = Assigned(prices_cache, frame[th].ticker, merged)
          /\ frame' = [frame EXCEPT
                         ![th].pc = IF merged.raised THEN "returned" ELSE "assigned",
                         ![th].status = IF merged.raised THEN "KeyError" ELSE "running"]
    /\ UNCHANGED <<financial_metrics_cache, line_items_cache,
                   insider_trades_cache, company_news_cache, db, calls, last>>

\* save_to_db: the json.dumps arguments of cursor.execute
ThreadDumps(th) ==
    /\ frame[th].pc = "assigned"
    /\ frame' = [frame EXCEPT ![th].pc = "dumped", ![th].row = Row(mem)]
    /\ UNCHANGED <<caches, db, calls, last>>

\* save_to_db: INSERT OR REPLACE and the commit at the end of the with block
ThreadCommit(th) ==
    /\ frame[th].pc = "dumped"
    /\ db' = InsertOrReplace(db, "cache", frame[th].row)
    /\ frame' = [frame EXCEPT ![th].pc = "returned", ![th].status = "ok"]
    /\ UNCHANGED <<caches, calls, last>>

NextThreads ==
    \/ \E th \in Threads : ThreadGet(th)
    \/ \E th \in Threads : ThreadAssign(th)
    \/ \E th \in Threads : ThreadDumps(th)
    \/ \E th \in Threads : ThreadCommit(th)

ThreadSpec == InitThreads /\ [][NextThreads]_vars

\* ---------------------------------------------------------------- properties
\* The list stored for a ticker in the dicts m, empty when the ticker is absent.
Entry(m, category, ticker) ==
    IF ticker \in DOMAIN m[category] THEN m[category][ticker] ELSE <<>>

IsPrefix(a, b) == Len(a) <= Len(b) /\ SubSeq(b, 1, Len(a)) = a

\* Every record stored anywhere carries the identity field of its category.
AllStoredKeyed ==
    \A c \in Categories : \A t \in DOMAIN mem[c] : AllKeyed(mem[c][t], key_field(c))

\* C1: after any sequence of set calls whose records all carry the identity
\* field, no stored list holds two records with the same identity-field value.
C1_Uniqueness ==
    AllStoredKeyed =>
        \A c \in Categories : \A t \in DOMAIN mem[c] :
            UniqueIds(mem[c][t], key_field(c))

\* C2: over every set call the ticker's stored list before the call is a
\* prefix of the stored list after it (stored records are never replaced,
\* altered or removed by a set call), and no record appended to a non-empty
\* list has the identity value of a record stored before the call.
C2_PrefixPreserved ==
    last.op = "set" =>
        LET kf == key_field(last.category)
            before == Entry(last.mem0, last.category, last.ticker)
            after == Entry(mem, last.category, last.ticker)
        IN /\ IsPrefix(before, after)
           /\ (last.status # "KeyError" /\ Len(before) > 0)
              => \A n \in (Len(before) + 1)..Len(after) :
                     after[n][kf] \notin Ids(before, kf)

\* C2 witness: a set call on a stored record's ticker whose batch starts with a
\* record of the same identity value and another close, and then brings a
\* new record: the stored record stays first, the new one is appended.
C2_Witness ==
    LET kf == key_field(last.category)
        before == Entry(last.mem0, last.category, last.ticker)
        after == Entry(mem, last.category, last.ticker)
    IN /\ last.op = "set"
       /\ last.status = "ok"
       /\ Len(before) = 1
       /\ Len(last.data) = 2
       /\ AllKeyed(before, kf) /\ AllKeyed(last.data, kf)
       /\ last.data[1][kf] = before[1][kf]
       /\ last.data[1] # before[1]
       /\ after = <<before[1], last.data[2]>>

\* The records of new_data whose identity value is not among those of existing.
Admitted(existing, new_data, kf) ==
    SelectSeq(new_data, LAMBDA item : \A i \in 1..Len(existing) :
                                          existing[i][kf] # item[kf])

\* The arguments of the direct _merge_data call are records with the identity
\* field.
FrameKeyed ==
    /\ AllKeyed(frame.existing.value, frame.key_field)
    /\ AllKeyed(frame.new_data, frame.key_field)

\* C3: for a non-empty existing list, _merge_data returns existing, unchanged
\* and in order, followed by the records of new_data, in their order, whose
\* identity value is not among those of existing.
C3_OrderPreserved ==
    (/\ frame.phase \in {"merged", "again"}
     /\ Len(frame.existing.value) > 0
     /\ FrameKeyed)
    => frame.merged =
           Returned(frame.existing.value
                    \o Admitted(frame.existing.value, frame.new_data,
                                frame.key_field))

\* C3 witness: a merge into a non-empty list that drops the first record of
\* new_data and admits the second.
C3_Witness ==
    /\ frame.phase = "merged"
    /\ FrameKeyed
    /\ Len(frame.existing.value) = 2
    /\ frame.existing.value[1] # frame.existing.value[2]
    /\ Len(frame.new_data) = 2
    /\ frame.new_data[1][frame.key_field] \in Ids(frame.existing.value, frame.key_field)
    /\ frame.new_data[2][frame.key_field] \notin Ids(frame.existing.value, frame.key_field)
    /\ frame.merged.value = Append(frame.existing.value, frame.new_data[2])

\* C4: when new_data repeats an identity value that existing does not hold,
\* the result of _merge_data holds one record with that value, the first of
\* them in new_data.
C4_FirstOfDuplicatesOnly ==
    (/\ frame.phase \in {"merged", "again"}
     /\ FrameKeyed
     /\ ~frame.merged.raised)
    => LET kf == frame.key_field
           data == frame.new_data
           out == frame.merged.value
       IN \A i, j \in 1..Len(data) :
              (/\ i < j
               /\ data[i][kf] = data[j][kf]
               /\ data[i][kf] \notin Ids(frame.existing.value, kf)
               /\ \A h \in 1..(i - 1) : data[h][kf] # data[i][kf])
              => /\ Cardinality({n \in 1..Len(out) : out[n][kf] = data[i][kf]}) = 1
                 /\ \E n \in 1..Len(out) : out[n] = data[i]

C5_SetTwiceUnchanged ==
    (/\ last.op = "set"
     /\ last.prev.op = "set"
     /\ last.prev.category = last.category
     /\ last.prev.ticker = last.ticker
     /\ last.prev.data = last.data)
    => mem[last.category] = last.mem0[last.category]

C6_EmptyExistingShortcut ==
    (/\ frame.phase \in {"merged", "again"}
     /\ (frame.existing.is_none \/ Len(frame.existing.value) = 0))
    => frame.merged = Returned(frame.new_data)

\* C6 witness: a merge into an empty (not absent) list of a batch of two
\* different records with one identity value.
C6_Witness ==
    /\ frame.phase = "merged"
    /\ ~frame.existing.is_none
    /\ Len(frame.existing.value) = 0
    /\ Len(frame.new_data) = 2
    /\ AllKeyed(frame.new_data, frame.key_field)
    /\ frame.new_data[1] # frame.new_data[2]
    /\ frame.new_data[1][frame.key_field] = frame.new_data[2][frame.key_field]
    /\ frame.merged.value = frame.new_data

\* The dicts a new Cache() on the table db would start with.
Hydrated == Loaded(db, EmptyCaches)

\* C7: when a set call returns without an exception, the table holds the one
\* row 'cache' and it decodes to the five dicts exactly as they are in memory.
C7_DiskEqualsMemoryAfterSet ==
    (last.op = "set" /\ last.status = "ok")
    => /\ DOMAIN db = {"cache"}
       /\ Hydrated = mem

\* C7 witness: a set call returns normally while another ticker's list, merged
\* by an earlier set call whose write failed, was in memory and not in the
\* table; it is in the table afterwards.
C7_Witness ==
    /\ last.op = "set"
    /\ last.status = "ok"
    /\ last.prev.op = "set"
    /\ last.prev.status = "OperationalError"
    /\ \E c \in Categories : \E t \in DOMAIN mem[c] :
          /\ <<c, t>> # <<last.category, last.ticker>>
          /\ Len(mem[c][t]) > 0
          /\ t \notin DOMAIN Loaded(last.db0, EmptyCaches)[c]
          /\ Hydrated[c][t] = mem[c][t]
    /\ Len(Entry(mem, last.category, last.ticker)) > 0

\* C8: a new Cache() constructed right after a save that committed (a
\* save_to_db call, or the one that ends a set call) starts with the dicts
\* the saving instance had: the same tickers, the same records, the same order.
C8_RoundTrip ==
    (/\ last.op = "init"
     /\ last.prev.op \in {"save", "set"}
     /\ last.prev.status = "ok")
    => mem = last.mem0

\* C8 witness: such a construction that reads back a list of two records.
C8_Witness ==
    /\ last.op = "init"
    /\ last.prev.op \in {"save", "set"}
    /\ last.prev.status = "ok"
    /\ \E c \in Categories : \E t \in DOMAIN mem[c] :
          /\ Len(mem[c][t]) = 2
          /\ mem[c][t][1] # mem[c][t][2]
          /\ mem[c][t] = last.mem0[c][t]

\* C9: when the write inside a set call fails, the caller gets the storage
\* exception, the ticker's entry in memory is the result of the merge, and the
\* table is as it was before the call.
C9_FailedPersistNotRolledBack ==
    (last.op = "set" /\ last.status = "OperationalError")
    => LET c == last.category
           t == last.ticker
           merged == _merge_data(dict_get(last.mem0[c], t), last.data, key_field(c))
       IN /\ ~merged.raised
          /\ t \in DOMAIN mem[c]
          /\ mem[c][t] = merged.value
          /\ db = last.db0

\* C9 witness: a set call whose write fails after a record was appended to a
\* list that the table already holds: memory is ahead of the table.
C9_Witness ==
    LET c == last.category
        t == last.ticker
    IN /\ last.op = "set"
       /\ last.status = "OperationalError"
       /\ Len(Entry(last.mem0, c, t)) > 0
       /\ Len(Entry(mem, c, t)) > Len(Entry(last.mem0, c, t))
       /\ "cache" \in DOMAIN db
       /\ Hydrated[c][t] = last.mem0[c][t]
       /\ Hydrated # mem

\* C10: a set call whose batch holds a record without the identity field of
\* the category ends in a KeyError for the caller, and nothing is stored.
C10_MissingIdentityIsAnError ==
    (last.op = "set" /\ ~AllKeyed(last.data, key_field(last.category)))
    => /\ last.status = "KeyError"
       /\ mem = last.mem0

\* C11: a get for a ticker that no set call has assigned in that category
\* returns None and raises nothing; so does every get on a cache constructed
\* over a table without rows, before any set call.
C11_UnknownTickerIsAbsent ==
    (last.op = "get" /\ <<last.category, last.ticker>> \notin last.assigned)
    => /\ last.status = "ok"
       /\ last.value = None

\* C11 witness: a get that returns None for a ticker while the call before
\* stored a list for the same ticker in another category.
C11_Witness ==
    /\ last.op = "get"
    /\ last.value = None
    /\ last.prev.op = "set"
    /\ last.prev.status = "ok"
    /\ last.prev.ticker = last.ticker
    /\ last.prev.category # last.category
    /\ Len(last.prev.data) > 0
    /\ <<last.prev.category, last.prev.ticker>> \in last.assigned

\* C12: a get leaves the five dicts and the table as they were, and a get
\* that repeats the get before it returns the same value.
C12_GetIsPureRead ==
    last.op = "get" =>
        /\ mem = last.mem0
        /\ db = last.db0
        /\ (/\ last.prev.op = "get"
            /\ last.prev.category = last.category
            /\ last.prev.ticker = last.ticker)
           => last.value = last.prev.value

\* C12 witness: two gets in a row that return the same stored record.
C12_Witness ==
    /\ last.op = "get"
    /\ last.prev.op = "get"
    /\ last.prev.category = last.category
    /\ last.prev.ticker = last.ticker
    /\ ~last.value.is_none
    /\ Len(last.value.value) = 1
    /\ last.value = last.prev.value
    /\ mem[last.category][last.ticker] = last.value.value

\* C13: load_from_db that finds the row makes the five dicts exactly the
\* row's contents (nothing that was only in memory stays); when there is no
\* row it leaves the five dicts as they were and raises nothing. The table is
\* not written.
C13_LoadReplaces ==
    (last.op = "load" /\ last.status = "ok")
    => /\ db = last.db0
       /\ IF "cache" \in DOMAIN db
          THEN /\ \A c \in Categories :
                     mem[c] = json_loads(db["cache"][Column(c)])
               /\ Row(mem) = db["cache"]
          ELSE mem = last.mem0

\* C13 witness: a load after a set call whose write failed: the list that
\* call stored in memory is gone, the row's list is back.
C13_Witness ==
    /\ last.op = "load"
    /\ last.status = "ok"
    /\ "cache" \in DOMAIN db
    /\ last.prev.op = "set"
    /\ last.prev.status = "OperationalError"
    /\ Len(last.prev.data) = 1
    /\ last.prev.ticker \in DOMAIN last.mem0[last.prev.category]
    /\ last.prev.ticker \notin DOMAIN mem[last.prev.category]
    /\ \E c \in Categories : \E t \in DOMAIN mem[c] : Len(mem[c][t]) = 1

\* C13 witness of the other case: a load with no row in the table leaves a
\* list that is only in memory.
C13_WitnessNoRow ==
    /\ last.op = "load"
    /\ last.status = "ok"
    /\ "cache" \notin DOMAIN db
    /\ \E c \in Categories : \E t \in DOMAIN mem[c] : Len(mem[c][t]) = 1

\* The list set_prices(ticker, first) and then set_prices(ticker, second)
\* leave for the ticker on an empty cache, one call after the other.
C14_Serial(ticker, first, second) ==
    LET d1 == Assigned(EmptyDict, ticker, _merge_data(None, first, "time"))
        d2 == Assigned(d1, ticker,
                       _merge_data(dict_get(d1, ticker), second, "time"))
    IN dict_get(d2, ticker)

\* C14: when both threads have returned from set_prices on the same ticker,
\* the stored list is what the two calls leave in one of the two serial
\* orders, and, when a call has written, the row decodes to the dicts in
\* memory.
C14_SetIsAtomic ==
    (\A th \in Threads : frame[th].pc = "returned")
    => /\ dict_get(prices_cache, frame[1].ticker)
              \in {C14_Serial(frame[1].ticker, frame[1].data, frame[2].data),
                   C14_Serial(frame[1].ticker, frame[2].data, frame[1].data)}
       /\ (\E th \in Threads : frame[th].status = "ok") => Hydrated = mem

\* C15: after save_to_db has committed (called on its own or at the end of a
\* set_* call), the table holds the one row 'cache', that row is the encoding
\* of the five dicts of the instance that saved, and it decodes to them:
\* nothing of what the table held before is left, whichever instance wrote it.
C15_SaveOverwrites ==
    (last.op \in {"save", "set"} /\ last.status = "ok")
    => /\ DOMAIN db = {"cache"}
       /\ db["cache"] = Row(mem)
       /\ Hydrated = mem
       /\ \A c \in Categories : \A t \in DOMAIN Hydrated[c] :
              t \in DOMAIN mem[c] /\ Hydrated[c][t] = mem[c][t]

\* C15 witness: the table holds a list written by another instance that this
\* instance never loaded; this instance saves its own dicts, which hold one
\* list of their own, and the other instance's list is no longer in the row.
C15_Witness ==
    /\ last.op = "save"
    /\ last.status = "ok"
    /\ last.prev.op = "set"
    /\ last.prev.status = "OperationalError"
    /\ Len(last.prev.data) = 1
    /\ "cache" \in DOMAIN last.db0
    /\ \E c \in Categories :
          \E t \in DOMAIN json_loads(last.db0["cache"][Column(c)]) :
              /\ t \notin DOMAIN last.mem0[c]
              /\ t \notin DOMAIN Hydrated[c]
    /\ last.prev.ticker \in DOMAIN Hydrated[last.prev.category]

\* C16: a set_* call changes, in the five dicts, at most the entry of its
\* ticker in its category: every other ticker of that category and every
\* ticker of the other four categories is present or absent as before the
\* call, with the list it had.
C16_SetFrame ==
    last.op = "set"
    => \A c \in Categories : \A t \in Tickers :
           (c # last.category \/ t # last.ticker)
           => /\ (t \in DOMAIN mem[c]) = (t \in DOMAIN last.mem0[c])
              /\ t \in DOMAIN mem[c] => mem[c][t] = last.mem0[c][t]

\* C16 witness: set_line_items has stored a list for a ticker while
\* financial_metrics holds a list for the same ticker and line_items holds one
\* for the other ticker; both are as they were.
C16_Witness ==
    /\ last.op = "set"
    /\ last.status = "ok"
    /\ last.category = "line_items"
    /\ Len(last.data) = 1
    /\ Entry(mem, "line_items", last.ticker) # Entry(last.mem0, "line_items", last.ticker)
    /\ Len(Entry(mem, "financial_metrics", last.ticker)) = 1
    /\ Entry(mem, "financial_metrics", last.ticker)
           = Entry(last.mem0, "financial_metrics", last.ticker)
    /\ \E t \in Tickers :
          /\ t # last.ticker
          /\ Len(Entry(mem, "line_items", t)) = 1
          /\ Entry(mem, "line_items", t) = Entry(last.mem0, "line_items", t)

\* C17: on a cache that started empty, as long as every batch passed to a
\* set_* call had the identity field in every record and no identity value
\* twice, every stored list has the identity field in every record and no
\* identity value twice.
C17_DistinctBatchesDistinctLists ==
    last.distinct
    => \A c \in Categories : \A t \in DOMAIN mem[c] :
           /\ AllKeyed(mem[c][t], key_field(c))
           /\ UniqueIds(mem[c][t], key_field(c))

\* C17 witness: two set_company_news calls for one ticker, each batch with
\* distinct identity values, the second batch repeating an identity value
\* of the first with another payload and bringing a new one: the stored list
\* has the first record and the new one.
C17_Witness ==
    /\ last.distinct
    /\ last.op = "set"
    /\ last.status = "ok"
    /\ last.category = "company_news"
    /\ last.prev.op = "set"
    /\ last.prev.category = "company_news"
    /\ last.prev.ticker = last.ticker
    /\ Len(last.prev.data) = 1
    /\ Len(last.data) = 2
    /\ last.prev.data[1]["date"] = last.data[1]["date"]
    /\ last.prev.data[1] # last.data[1]
    /\ mem["company_news"][last.ticker] = <<last.prev.data[1], last.data[2]>>

\* C18: when a set_* call ends with the KeyError of _merge_data (raised only
\* when the ticker's stored list is not empty), the five dicts and the table
\* are what they were when it was called: nothing of the batch is stored and
\* nothing is written.
C18_KeyErrorChangesNothing ==
    (last.op = "set" /\ last.status = "KeyError")
    => /\ Len(Entry(last.mem0, last.category, last.ticker)) > 0
       /\ mem = last.mem0
       /\ db = last.db0
       /\ Entry(mem, last.category, last.ticker)
              = Entry(last.mem0, last.category, last.ticker)

\* C18 witness: set_insider_trades on a ticker with a stored record, with a
\* batch of a record with a new filing_date followed by a record without
\* filing_date, has raised; the stored list has its one record, and the table,
\* which the call before could not write, is still empty.
C18_Witness ==
    /\ last.op = "set"
    /\ last.status = "KeyError"
    /\ last.category = "insider_trades"
    /\ Len(last.data) = 2
    /\ "filing_date" \in DOMAIN last.data[1]
    /\ last.data[2] = NoKeyItem
    /\ last.prev.op = "set"
    /\ last.prev.status = "OperationalError"
    /\ Len(last.prev.data) = 1
    /\ "filing_date" \in DOMAIN last.prev.data[1]
    /\ last.prev.data[1]["filing_date"] # last.data[1]["filing_date"]
    /\ mem["insider_trades"][last.ticker] = last.prev.data
    /\ db = NoRows

====
